---- MODULE Spec2Model ----
(***************************************************************************)
(* Model of ChessVar.py: a chess variant with hunter and falcon fairy      *)
(* pieces.  The match (ChessVar), the two Player objects, the Board and    *)
(* the valid_move method of every piece class are translated statement by  *)
(* statement; a call that ends in an uncaught Python exception is recorded *)
(* as a result of its own.                                                 *)
(***************************************************************************)
EXTENDS Integers, Sequences, FiniteSets, TLC

VARIABLES
    turn,          \* ChessVar._turn
    game_state,    \* ChessVar._game_state
    board_dict,    \* Board._board_dict: key -> piece object or None
    first_move,    \* Pawn._first_move of every pawn object
    player_1,      \* Player('player_1', 'white'): the three lists
    player_2,      \* Player('player_2', 'black'): the three lists
    last           \* the last public call: its arguments and how it ended

vars == <<turn, game_state, board_dict, first_move, player_1, player_2, last>>

(***************************************************************************)
(* Bounds of the exploration.                                              *)
(***************************************************************************)
\* calls are explored while the turn counter is at most MaxTurn
MaxTurn == 4

\* Python's None, as a board occupant
None == "None"
\* Python's None, as the result of get_space_name_as_location
NoLocation == 0 - 1

(***************************************************************************)
(* Board: the key/location tables and the conversions between them.        *)
(***************************************************************************)
name_to_location_dict == [
    a8 |-> 0, b8 |-> 1, c8 |-> 2, d8 |-> 3, e8 |-> 4, f8 |-> 5, g8 |-> 6, h8 |-> 7,
    a7 |-> 8, b7 |-> 9, c7 |-> 10, d7 |-> 11, e7 |-> 12, f7 |-> 13, g7 |-> 14, h7 |-> 15,
    a6 |-> 16, b6 |-> 17, c6 |-> 18, d6 |-> 19, e6 |-> 20, f6 |-> 21, g6 |-> 22, h6 |-> 23,
    a5 |-> 24, b5 |-> 25, c5 |-> 26, d5 |-> 27, e5 |-> 28, f5 |-> 29, g5 |-> 30, h5 |-> 31,
    a4 |-> 32, b4 |-> 33, c4 |-> 34, d4 |-> 35, e4 |-> 36, f4 |-> 37, g4 |-> 38, h4 |-> 39,
    a3 |-> 40, b3 |-> 41, c3 |-> 42, d3 |-> 43, e3 |-> 44, f3 |-> 45, g3 |-> 46, h3 |-> 47,
    a2 |-> 48, b2 |-> 49, c2 |-> 50, d2 |-> 51, e2 |-> 52, f2 |-> 53, g2 |-> 54, h2 |-> 55,
    a1 |-> 56, b1 |-> 57, c1 |-> 58, d1 |-> 59, e1 |-> 60, f1 |-> 61, g1 |-> 62, h1 |-> 63
]

StableKeys == {"f", "h", "F", "H"}

\* the keys of Board._board_dict: the 64 squares and the 4 stable slots
BoardKeys == (DOMAIN name_to_location_dict) \cup StableKeys

SquareKeys == DOMAIN name_to_location_dict

Locations == 0..63

\* result of a call into Board that may raise: ok with a value, or an error
Val(v) == [err |-> "", val |-> v]
Raise(e) == [err |-> e, val |-> NoLocation]

\* dict lookup self._name_to_location_dict[space_name]
get_space_name_as_location(space_name) ==
    IF space_name \in BoardKeys
    THEN IF space_name \in DOMAIN name_to_location_dict
         THEN Val(name_to_location_dict[space_name])
         ELSE Raise("KeyError")
    ELSE Val(NoLocation)

\* variant: locations are counted from 1
get_location_as_space_name_from_one(location) ==
    IF \E key \in DOMAIN name_to_location_dict : name_to_location_dict[key] = location + 1
    THEN CHOOSE key \in DOMAIN name_to_location_dict : name_to_location_dict[key] = location + 1
    ELSE None

get_location_as_space_name(location) ==
    IF \E key \in DOMAIN name_to_location_dict : name_to_location_dict[key] = location
    THEN CHOOSE key \in DOMAIN name_to_location_dict : name_to_location_dict[key] = location
    ELSE None

(***************************************************************************)
(* Piece objects.  A piece object is identified by the key of the slot     *)
(* populate_board creates it in; its class and colour never change.        *)
(***************************************************************************)
\* variant: king and queen change files
populate_board_king_on_d(color, row_front, row_back) ==
    LET front == ToString(row_front)
        back  == ToString(row_back)
    IN  ("a" \o front :> "pawn")   @@ ("b" \o front :> "pawn")   @@
        ("c" \o front :> "pawn")   @@ ("d" \o front :> "pawn")   @@
        ("e" \o front :> "pawn")   @@ ("f" \o front :> "pawn")   @@
        ("g" \o front :> "pawn")   @@ ("h" \o front :> "pawn")   @@
        ("a" \o back  :> "rook")   @@ ("h" \o back  :> "rook")   @@
        ("b" \o back  :> "knight") @@ ("g" \o back  :> "knight") @@
        ("c" \o back  :> "bishop") @@ ("f" \o back  :> "bishop") @@
        ("d" \o back  :> "king")   @@ ("e" \o back  :> "queen")  @@
        (IF color = "black"
         THEN ("f" :> "falcon") @@ ("h" :> "hunter")
         ELSE ("F" :> "falcon") @@ ("H" :> "hunter"))

\* the objects one populate_board call creates: slot key -> class
populate_board(color, row_front, row_back) ==
    LET front == ToString(row_front)
        back  == ToString(row_back)
    IN  ("a" \o front :> "pawn")   @@ ("b" \o front :> "pawn")   @@
        ("c" \o front :> "pawn")   @@ ("d" \o front :> "pawn")   @@
        ("e" \o front :> "pawn")   @@ ("f" \o front :> "pawn")   @@
        ("g" \o front :> "pawn")   @@ ("h" \o front :> "pawn")   @@
        ("a" \o back  :> "rook")   @@ ("h" \o back  :> "rook")   @@
        ("b" \o back  :> "knight") @@ ("g" \o back  :> "knight") @@
        ("c" \o back  :> "bishop") @@ ("f" \o back  :> "bishop") @@
        ("d" \o back  :> "queen")  @@ ("e" \o back  :> "king")   @@
        (IF color = "black"
         THEN ("f" :> "falcon") @@ ("h" :> "hunter")
         ELSE ("F" :> "falcon") @@ ("H" :> "hunter"))

BlackObjects == populate_board("black", 7, 8)
WhiteObjects == populate_board("white", 2, 1)

PieceObjects == (DOMAIN BlackObjects) \cup (DOMAIN WhiteObjects)

get_name(piece) ==
    IF piece \in DOMAIN BlackObjects THEN BlackObjects[piece] ELSE WhiteObjects[piece]

get_color(piece) ==
    IF piece \in DOMAIN BlackObjects THEN "black" ELSE "white"

PawnObjects == {p \in PieceObjects : get_name(p) = "pawn"}

\* Board() followed by the two populate_board calls of ChessVar.__init__
new_board == [key \in BoardKeys |-> IF key \in PieceObjects THEN key ELSE None]

(***************************************************************************)
(* Player.                                                                 *)
(***************************************************************************)
\* Player.__init__ followed by new_piece_set: range(1, 8) appends 7 pawns
new_piece_set ==
    [active_pieces |-> <<"pawn", "pawn", "pawn", "pawn", "pawn", "pawn", "pawn",
                         "rook", "rook", "knight", "knight", "bishop", "bishop",
                         "king", "queen">>,
     captured_pieces |-> <<>>,
     fairy_pieces_stable |-> <<"hunter", "falcon">>]

Contains(list, x) == \E i \in 1..Len(list) : list[i] = x

\* list.remove(x): drops the first occurrence
ListRemove(list, x) ==
    LET i == CHOOSE j \in 1..Len(list) :
                 list[j] = x /\ \A k \in 1..(j - 1) : list[k] # x
    IN  SubSeq(list, 1, i - 1) \o SubSeq(list, i + 1, Len(list))

remove_active_piece(player, piece_name) ==
    IF Contains(player.active_pieces, piece_name)
    THEN [player EXCEPT !.active_pieces = ListRemove(@, piece_name)]
    ELSE player

\* variant: the label is appended twice
add_captured_piece_twice(player, piece_name) ==
    [player EXCEPT !.captured_pieces = Append(Append(@, piece_name), piece_name)]

add_captured_piece(player, piece_name) ==
    [player EXCEPT !.captured_pieces = Append(@, piece_name)]

remove_fairy_piece(player, piece_name) ==
    [player EXCEPT !.fairy_pieces_stable = ListRemove(@, piece_name)]

(***************************************************************************)
(* valid_move of each piece class.  A result is [ok, list]: ok is FALSE    *)
(* when the method returns None, otherwise list is the returned list.      *)
(***************************************************************************)
Path(list) == [ok |-> TRUE, list |-> list]
NoPath == [ok |-> FALSE, list |-> <<>>]

\* list(range(a, b))
PyRange(a, b) == IF b > a THEN [i \in 1..(b - a) |-> a + i - 1] ELSE <<>>

Abs(n) == IF n < 0 THEN 0 - n ELSE n

edge_one == {0, 8, 16, 24, 32, 40, 48, 56}
edge_eight == {7, 15, 23, 31, 39, 47, 55, 63}

\* one colour/edge branch of Pawn.valid_move: the single step, the double
\* step, the diagonal capture; every returned list clears self._first_move
\* variant: the single step does not test the occupant of the new location
pawn_branch_forward_capture(self, fm, cur, new, occ, step, diagonals, enemy) ==
    IF cur + step = new
    THEN [ok |-> TRUE, list |-> <<new>>, first_move |-> [fm EXCEPT ![self] = FALSE]]
    ELSE IF cur + 2 * step = new /\ fm[self] /\ occ = None
    THEN [ok |-> TRUE, list |-> <<cur + step, new>>,
          first_move |-> [fm EXCEPT ![self] = FALSE]]
    ELSE IF occ # None /\ new \in diagonals /\ get_color(occ) = enemy
    THEN [ok |-> TRUE, list |-> <<new>>, first_move |-> [fm EXCEPT ![self] = FALSE]]
    ELSE [ok |-> FALSE, list |-> <<>>, first_move |-> fm]

pawn_branch(self, fm, cur, new, occ, step, diagonals, enemy) ==
    IF cur + step = new /\ occ = None
    THEN [ok |-> TRUE, list |-> <<new>>, first_move |-> [fm EXCEPT ![self] = FALSE]]
    ELSE IF cur + 2 * step = new /\ fm[self] /\ occ = None
    THEN [ok |-> TRUE, list |-> <<cur + step, new>>,
          first_move |-> [fm EXCEPT ![self] = FALSE]]
    ELSE IF occ # None /\ new \in diagonals /\ get_color(occ) = enemy
    THEN [ok |-> TRUE, list |-> <<new>>, first_move |-> [fm EXCEPT ![self] = FALSE]]
    ELSE [ok |-> FALSE, list |-> <<>>, first_move |-> fm]

Pawn_valid_move(self, fm, cur, new, occ) ==
    IF cur \notin edge_one /\ cur \notin edge_eight
    THEN IF get_color(self) = "black"
         THEN pawn_branch(self, fm, cur, new, occ, 8, {cur + 7, cur + 9}, "white")
         ELSE pawn_branch(self, fm, cur, new, occ, 0 - 8, {cur - 7, cur - 9}, "black")
    ELSE IF cur \in edge_one
    THEN IF get_color(self) = "black"
         THEN pawn_branch(self, fm, cur, new, occ, 8, {cur + 9}, "white")
         ELSE pawn_branch(self, fm, cur, new, occ, 0 - 8, {cur - 7}, "black")
    ELSE IF get_color(self) = "black"
         THEN pawn_branch(self, fm, cur, new, occ, 8, {cur + 7}, "white")
         ELSE pawn_branch(self, fm, cur, new, occ, 0 - 8, {cur - 9}, "black")

\* variant: the two locations are tested against the rows separately
SameRow_separately(cur, new) ==
    /\ \E r \in 0..7 : 8 * r <= cur /\ cur <= 8 * r + 7
    /\ \E r \in 0..7 : 8 * r <= new /\ new <= 8 * r + 7

\* the eight "elif 8r <= current_location <= 8r+7 and ..." tests
SameRow(cur, new) ==
    \E r \in 0..7 : 8 * r <= cur /\ cur <= 8 * r + 7 /\ 8 * r <= new /\ new <= 8 * r + 7

\* the body shared by the eight row branches: both ifs test current > new
row_branch(cur, new) ==
    (IF cur > new THEN PyRange(new, cur + 1) ELSE <<>>) \o
    (IF new < cur THEN PyRange(cur, new + 1) ELSE <<>>)

\* variant: a file move lists only its two ends
Rook_valid_move_file_ends(cur, new) ==
    IF (cur - new) % 8 = 0
    THEN IF cur < new THEN Path(<<cur, new>>)
         ELSE IF cur > new THEN Path(<<new, cur>>)
         ELSE Path(<<>>)
    ELSE IF SameRow(cur, new) THEN Path(row_branch(cur, new))
    ELSE NoPath

Rook_valid_move(cur, new) ==
    IF (cur - new) % 8 = 0
    THEN LET OnFile(location) == (cur - location) % 8 = 0
         IN  IF cur < new THEN Path(SelectSeq(PyRange(cur, new + 1), OnFile))
             ELSE IF cur > new THEN Path(SelectSeq(PyRange(new, cur + 1), OnFile))
             ELSE Path(<<>>)
    ELSE IF SameRow(cur, new) THEN Path(row_branch(cur, new))
    ELSE NoPath

\* the %7 branch returns from inside the loop, after its first iteration
Bishop_valid_move(cur, new) ==
    IF (cur - new) % 7 = 0
    THEN IF cur > new THEN Path(<<new>>)
         ELSE IF new > cur THEN Path(<<cur>>)
         ELSE NoPath
    ELSE IF (cur - new) % 9 = 0
    THEN LET OnLine(location) == Abs(location - cur) % 9 = 0
         IN  IF cur > new THEN Path(SelectSeq(PyRange(new, cur + 1), OnLine))
             ELSE IF new > cur THEN Path(SelectSeq(PyRange(cur, new + 1), OnLine))
             ELSE NoPath
    ELSE NoPath

Knight_valid_move(cur, new) ==
    IF Abs(cur - new) \in {6, 10, 14, 15, 17} THEN Path(<<new>>) ELSE NoPath

Queen_valid_move(cur, new) ==
    IF (cur - new) % 8 = 0
    THEN LET OnFile(location) == Abs(cur - location) % 8 = 0
         IN  IF cur < new THEN Path(SelectSeq(PyRange(cur, new + 1), OnFile))
             ELSE IF cur > new THEN Path(SelectSeq(PyRange(new, cur + 1), OnFile))
             ELSE Path(<<>>)
    ELSE IF SameRow(cur, new) THEN Path(row_branch(cur, new))
    ELSE IF Abs(cur - new) % 7 = 0
    THEN LET OnLine(location) == Abs(location - cur) % 7 = 0
         IN  IF cur > new THEN Path(SelectSeq(PyRange(new, cur + 1), OnLine))
             ELSE IF new > cur THEN Path(SelectSeq(PyRange(cur, new + 1), OnLine))
             ELSE NoPath
    ELSE IF Abs(cur - new) % 9 = 0
    THEN LET OnLine(location) == Abs(location - cur) % 9 = 0
         IN  IF cur > new THEN Path(SelectSeq(PyRange(new, cur + 1), OnLine))
             ELSE IF new > cur THEN Path(SelectSeq(PyRange(cur, new + 1), OnLine))
             ELSE NoPath
    ELSE NoPath

King_valid_move(cur, new) ==
    IF Abs(cur - new) \in {9, 8, 7} THEN Path(<<new>>)
    ELSE IF cur + 1 = new \/ cur - 1 = new THEN Path(<<new>>)
    ELSE NoPath

\* "location - current_location % m == 0" parses as location == current % m
Hunter_valid_move(self, cur, new) ==
    LET OnFile(location) == (cur - location) % 8 = 0
        Is7(location) == location - (cur % 7) = 0
        Is9(location) == location - (cur % 9) = 0
    IN  IF get_color(self) = "black"
        THEN IF new > cur
             THEN IF (cur - new) % 8 = 0
                  THEN Path(SelectSeq(PyRange(cur, new + 1), OnFile))
                  ELSE NoPath
             ELSE IF new < cur
             THEN IF (cur - new) % 7 = 0
                  THEN Path(SelectSeq(PyRange(new, cur + 1), Is7))
                  ELSE IF (cur - new) % 9 = 0
                  THEN Path(SelectSeq(PyRange(new, cur + 1), Is9))
                  ELSE NoPath
             ELSE NoPath
        ELSE IF new < cur
             THEN IF (cur - new) % 8 = 0
                  THEN Path(SelectSeq(PyRange(new, cur + 1), OnFile))
                  ELSE NoPath
             ELSE IF new > cur
             THEN IF (cur - new) % 7 = 0
                  THEN Path(SelectSeq(PyRange(cur, new + 1), Is7))
                  ELSE IF (cur - new) % 9 = 0
                  THEN Path(SelectSeq(PyRange(cur, new + 1), Is9))
                  ELSE NoPath
             ELSE NoPath

\* the black branches and the white bishop branch iterate over ranges whose
\* start is beyond their end (the white one only when it moves up the board)
Falcon_valid_move(self, cur, new) ==
    LET OnFile(location) == (cur - location) % 8 = 0
        Is7(location) == location - (cur % 7) = 0
        Is9(location) == location - (cur % 9) = 0
    IN  IF get_color(self) = "black"
        THEN IF new < cur
             THEN IF (cur - new) % 8 = 0
                  THEN Path(SelectSeq(PyRange(cur, new + 1), OnFile))
                  ELSE NoPath
             ELSE IF new > cur
             THEN IF (cur - new) % 7 = 0
                  THEN Path(SelectSeq(PyRange(new, cur + 1), Is7))
                  ELSE IF (cur - new) % 9 = 0
                  THEN Path(SelectSeq(PyRange(new, cur + 1), Is9))
                  ELSE NoPath
             ELSE NoPath
        ELSE IF new > cur
             THEN IF (cur - new) % 8 = 0
                  THEN Path(SelectSeq(PyRange(cur, new + 1), OnFile))
                  ELSE NoPath
             ELSE IF new < cur
             THEN IF (cur - new) % 7 = 0
                  THEN Path(SelectSeq(PyRange(new, cur + 1), Is7))
                  ELSE IF (cur - new) % 9 = 0
                  THEN Path(SelectSeq(PyRange(new, cur + 1), Is9))
                  ELSE NoPath
             ELSE NoPath

(***************************************************************************)
(* ChessVar.  The methods are functions of the match state st, a record of *)
(* the fields they read and write; a result is the state the call leaves   *)
(* behind together with how the call ended: "True", "False", or the name   *)
(* of the exception that escaped it.                                       *)
(***************************************************************************)
Return(st, res) == [st |-> st, res |-> res]

\* variant: the increment is indented under the second king test
increment_turn_indented(st) ==
    LET s1 == IF Contains(st.player_1.captured_pieces, "king")
              THEN [st EXCEPT !.game_state = "BLACK_WON"] ELSE st
    IN  IF Contains(s1.player_2.captured_pieces, "king")
        THEN [s1 EXCEPT !.game_state = "WHITE_WON", !.turn = @ + 1]
        ELSE s1

\* variant: the two outcomes are exchanged
increment_turn_swapped(st) ==
    LET s1 == IF Contains(st.player_1.captured_pieces, "king")
              THEN [st EXCEPT !.game_state = "WHITE_WON"] ELSE st
        s2 == IF Contains(s1.player_2.captured_pieces, "king")
              THEN [s1 EXCEPT !.game_state = "BLACK_WON"] ELSE s1
    IN  [s2 EXCEPT !.turn = @ + 1]

increment_turn(st) ==
    LET s1 == IF Contains(st.player_1.captured_pieces, "king")
              THEN [st EXCEPT !.game_state = "BLACK_WON"] ELSE st
        s2 == IF Contains(s1.player_2.captured_pieces, "king")
              THEN [s1 EXCEPT !.game_state = "WHITE_WON"] ELSE s1
    IN  [s2 EXCEPT !.turn = @ + 1]

\* variant: the parity test is inverted
player_turn_of_inverted(st) == IF st.turn % 2 = 0 THEN "white" ELSE "black"

\* if self._turn % 2 == 1: 'white' else 'black'
player_turn_of(st) == IF st.turn % 2 = 1 THEN "white" ELSE "black"

\* variant: only one of the two won states stops the game
game_over_black_only(st) == st.game_state = "BLACK_WON"

\* if self._game_state != 'UNFINISHED': return False
game_over(st) == st.game_state # "UNFINISHED"

\* variant: a square is never emptied
set_space_occupant_never_empties(st, piece_object, space_name) ==
    IF piece_object = None THEN st
    ELSE [st EXCEPT !.board_dict[space_name] = piece_object]

set_space_occupant(st, piece_object, space_name) ==
    [st EXCEPT !.board_dict[space_name] = piece_object]

\* moving_piece.valid_move(...): dispatch on the class of the object
valid_move(st, moving_piece, cur, new, occ) ==
    LET name == get_name(moving_piece)
        Pure(r) == [ok |-> r.ok, list |-> r.list, st |-> st]
    IN  IF name = "pawn"
        THEN LET r == Pawn_valid_move(moving_piece, st.first_move, cur, new, occ)
             IN  [ok |-> r.ok, list |-> r.list,
                  st |-> [st EXCEPT !.first_move = r.first_move]]
        ELSE IF name = "rook" THEN Pure(Rook_valid_move(cur, new))
        ELSE IF name = "bishop" THEN Pure(Bishop_valid_move(cur, new))
        ELSE IF name = "knight" THEN Pure(Knight_valid_move(cur, new))
        ELSE IF name = "queen" THEN Pure(Queen_valid_move(cur, new))
        ELSE IF name = "king" THEN Pure(King_valid_move(cur, new))
        ELSE IF name = "hunter" THEN Pure(Hunter_valid_move(moving_piece, cur, new))
        ELSE Pure(Falcon_valid_move(moving_piece, cur, new))

\* for move in valid_move_list: ... is not None: return False
path_blocked(st, valid_move_list, moving_piece_location, new_square_location) ==
    \E i \in 1..Len(valid_move_list) :
        LET move == valid_move_list[i]
        IN  /\ move # new_square_location
            /\ move # moving_piece_location
            /\ st.board_dict[get_location_as_space_name(move)] # None

\* variant: the capture is recorded before the colour of the occupant is tested
capture_record_first(st, player_turn, occ) ==
    IF occ = None THEN [rejected |-> FALSE, st |-> st]
    ELSE LET recorded ==
                 IF player_turn = "white"
                 THEN [st EXCEPT !.player_2 =
                          remove_active_piece(add_captured_piece(@, get_name(occ)),
                                              get_name(occ))]
                 ELSE [st EXCEPT !.player_1 =
                          remove_active_piece(add_captured_piece(@, get_name(occ)),
                                              get_name(occ))]
         IN  [rejected |-> get_color(occ) = player_turn, st |-> recorded]

\* variant: the black branch tests the occupant against 'white'
capture_copied_test(st, player_turn, occ) ==
    IF occ = None THEN [rejected |-> FALSE, st |-> st]
    ELSE IF get_color(occ) = "white" THEN [rejected |-> TRUE, st |-> st]
    ELSE IF player_turn = "white"
    THEN [rejected |-> FALSE,
          st |-> [st EXCEPT !.player_2 =
                     remove_active_piece(add_captured_piece(@, get_name(occ)),
                                         get_name(occ))]]
    ELSE [rejected |-> FALSE,
          st |-> [st EXCEPT !.player_1 =
                     remove_active_piece(add_captured_piece(@, get_name(occ)),
                                         get_name(occ))]]

\* variant: the capture is recorded in the lists of the mover's player
capture_own_lists(st, player_turn, occ) ==
    IF occ = None THEN [rejected |-> FALSE, st |-> st]
    ELSE IF player_turn = "white"
    THEN IF get_color(occ) = "white" THEN [rejected |-> TRUE, st |-> st]
         ELSE [rejected |-> FALSE,
               st |-> [st EXCEPT !.player_1 =
                          remove_active_piece(add_captured_piece(@, get_name(occ)),
                                              get_name(occ))]]
    ELSE IF get_color(occ) = "black" THEN [rejected |-> TRUE, st |-> st]
         ELSE [rejected |-> FALSE,
               st |-> [st EXCEPT !.player_2 =
                          remove_active_piece(add_captured_piece(@, get_name(occ)),
                                              get_name(occ))]]

\* "detects if a valid capture is being performed": rejected, or the state
\* with the capture recorded in the lists of the captured piece's player
capture(st, player_turn, occ) ==
    IF occ = None THEN [rejected |-> FALSE, st |-> st]
    ELSE IF player_turn = "white"
    THEN IF get_color(occ) = "white" THEN [rejected |-> TRUE, st |-> st]
         ELSE [rejected |-> FALSE,
               st |-> [st EXCEPT !.player_2 =
                          remove_active_piece(add_captured_piece(@, get_name(occ)),
                                              get_name(occ))]]
    ELSE IF get_color(occ) = "black" THEN [rejected |-> TRUE, st |-> st]
         ELSE [rejected |-> FALSE,
               st |-> [st EXCEPT !.player_1 =
                          remove_active_piece(add_captured_piece(@, get_name(occ)),
                                              get_name(occ))]]

make_move(st, current_square, new_square) ==
    IF game_over(st) THEN Return(st, "False")
    ELSE IF current_square \notin BoardKeys THEN Return(st, "KeyError")
    ELSE
    LET player_turn == player_turn_of(st)
        moving_piece == st.board_dict[current_square]
    IN
    IF moving_piece = None THEN Return(st, "False")
    ELSE IF get_color(moving_piece) # player_turn THEN Return(st, "False")
    ELSE IF new_square \notin BoardKeys THEN Return(st, "False")
    ELSE
    LET new_square_location == get_space_name_as_location(new_square)
        moving_piece_location == get_space_name_as_location(current_square)
    IN
    IF new_square_location.err # "" THEN Return(st, new_square_location.err)
    ELSE IF moving_piece_location.err # "" THEN Return(st, moving_piece_location.err)
    ELSE
    LET opponent_in_new_square == st.board_dict[new_square]
        vm == valid_move(st, moving_piece, moving_piece_location.val,
                         new_square_location.val, opponent_in_new_square)
    IN
    IF ~vm.ok THEN Return(vm.st, "False")
    ELSE IF path_blocked(vm.st, vm.list, moving_piece_location.val,
                         new_square_location.val)
    THEN Return(vm.st, "False")
    ELSE
    LET c == capture(vm.st, player_turn, opponent_in_new_square)
    IN
    IF c.rejected THEN Return(c.st, "False")
    ELSE Return(increment_turn(
                    set_space_occupant(
                        set_space_occupant(c.st, moving_piece, new_square),
                        None, current_square)),
                "True")

\* a non-empty str is true in a condition
Truthy(str) == str # ""

\* if 'rook' or 'knight' or 'bishop' or 'queen' in <captured list>
captured_gate(captured_pieces_list) ==
    \/ Truthy("rook") \/ Truthy("knight") \/ Truthy("bishop")
    \/ Contains(captured_pieces_list, "queen")

\* variant: the piece placed is always the white falcon
enter_white_falcon(st, stable_key, fairy_name, entry_square) ==
    increment_turn(
        [st EXCEPT !.board_dict[entry_square] = st.board_dict["F"],
                   !.player_1 = remove_fairy_piece(@, fairy_name)])

\* the three statements of a successful entry; every branch, the black ones
\* included, uses self._player_1
enter(st, stable_key, fairy_name, entry_square) ==
    increment_turn(
        [st EXCEPT !.board_dict[entry_square] = st.board_dict[stable_key],
                   !.player_1 = remove_fairy_piece(@, fairy_name)])

\* variant: the occupant of the entry square is not tested
entry_branch_any_square(st, piece_type, entry_square, falcon_code, hunter_code) ==
    IF /\ piece_type = falcon_code
       /\ Contains(st.player_1.fairy_pieces_stable, "falcon")
       /\ captured_gate(st.player_1.captured_pieces)
    THEN Return(enter(st, falcon_code, "falcon", entry_square), "True")
    ELSE IF /\ piece_type = hunter_code
            /\ Contains(st.player_1.fairy_pieces_stable, "hunter")
            /\ captured_gate(st.player_1.captured_pieces)
    THEN Return(enter(st, hunter_code, "hunter", entry_square), "True")
    ELSE Return(st, "False")

\* the body under "if ...[entry_square] is None" for one colour
entry_branch(st, piece_type, entry_square, falcon_code, hunter_code) ==
    IF st.board_dict[entry_square] # None THEN Return(st, "False")
    ELSE IF /\ piece_type = falcon_code
            /\ Contains(st.player_1.fairy_pieces_stable, "falcon")
            /\ captured_gate(st.player_1.captured_pieces)
    THEN Return(enter(st, falcon_code, "falcon", entry_square), "True")
    ELSE IF /\ piece_type = hunter_code
            /\ Contains(st.player_1.fairy_pieces_stable, "hunter")
            /\ captured_gate(st.player_1.captured_pieces)
    THEN Return(enter(st, hunter_code, "hunter", entry_square), "True")
    ELSE Return(st, "False")

\* get_space_name_as_location(entry_square) > 47, or < 16: the lookup may
\* raise KeyError, the comparison of None with an int raises TypeError
entry_location(entry_square) ==
    LET loc == get_space_name_as_location(entry_square)
    IN  IF loc.err # "" THEN loc
        ELSE IF loc.val = NoLocation THEN Raise("TypeError")
        ELSE loc

\* variant: a call naming a square off the home ranks passes the turn
entry_fairy_piece_passes_turn(st, piece_type, entry_square) ==
    LET player_turn == player_turn_of(st)
        loc == entry_location(entry_square)
    IN  IF loc.err # "" THEN Return(st, loc.err)
        ELSE IF player_turn = "white"
        THEN IF loc.val > 47
             THEN entry_branch(st, piece_type, entry_square, "F", "H")
             ELSE Return(increment_turn(st), "False")
        ELSE IF loc.val < 16
             THEN entry_branch(st, piece_type, entry_square, "f", "h")
             ELSE Return(increment_turn(st), "False")

entry_fairy_piece(st, piece_type, entry_square) ==
    LET player_turn == player_turn_of(st)
        loc == entry_location(entry_square)
    IN  IF loc.err # "" THEN Return(st, loc.err)
        ELSE IF player_turn = "white"
        THEN IF loc.val > 47
             THEN entry_branch(st, piece_type, entry_square, "F", "H")
             ELSE Return(st, "False")
        ELSE IF loc.val < 16
             THEN entry_branch(st, piece_type, entry_square, "f", "h")
             ELSE Return(st, "False")

(***************************************************************************)
(* The state machine: a driver that calls the two public operations with   *)
(* arguments drawn from small sets of strings.                             *)
(***************************************************************************)
\* squares named in make_move calls: board squares, a stable slot, a
\* malformed name
SquareInputs == {"f1", "h3", "a3", "f7", "f5", "e8", "c8", "d2", "e1", "F", "z9"}

\* entry squares named in calls: a white and a black home square that become
\* empty, a home square that stays occupied until captured on, a stable
\* slot, a malformed name
EntryInputs == {"f1", "d2", "f7", "F", "z9"}

PieceTypeInputs == {"F", "H", "f", "h", "X"}

State == [turn |-> turn, game_state |-> game_state, board_dict |-> board_dict,
          first_move |-> first_move, player_1 |-> player_1, player_2 |-> player_2]

Assign(st) ==
    /\ turn' = st.turn
    /\ game_state' = st.game_state
    /\ board_dict' = st.board_dict
    /\ first_move' = st.first_move
    /\ player_1' = st.player_1
    /\ player_2' = st.player_2

\* ChessVar.__init__
Init ==
    /\ turn = 1
    /\ game_state = "UNFINISHED"
    /\ board_dict = new_board
    /\ first_move = [p \in PawnObjects |-> TRUE]
    /\ player_1 = new_piece_set
    /\ player_2 = new_piece_set
    /\ last = [op |-> "__init__", arg1 |-> "", arg2 |-> "", res |-> ""]

MakeMove(current_square, new_square) ==
    /\ turn <= MaxTurn
    /\ LET r == make_move(State, current_square, new_square)
       IN  /\ Assign(r.st)
           /\ last' = [op |-> "make_move", arg1 |-> current_square,
                       arg2 |-> new_square, res |-> r.res]

EntryFairyPiece(piece_type, entry_square) ==
    /\ turn <= MaxTurn
    /\ LET r == entry_fairy_piece(State, piece_type, entry_square)
       IN  /\ Assign(r.st)
           /\ last' = [op |-> "entry_fairy_piece", arg1 |-> piece_type,
                       arg2 |-> entry_square, res |-> r.res]

Next ==
    \/ \E current_square \in SquareInputs, new_square \in SquareInputs :
           MakeMove(current_square, new_square)
    \/ \E piece_type \in PieceTypeInputs, entry_square \in EntryInputs :
           EntryFairyPiece(piece_type, entry_square)

Spec == Init /\ [][Next]_vars

TypeOK ==
    /\ turn \in 1..(MaxTurn + 1)
    /\ game_state \in {"UNFINISHED", "WHITE_WON", "BLACK_WON"}
    /\ \A key \in BoardKeys : board_dict[key] \in PieceObjects \cup {None}

(***************************************************************************)
(* Vocabulary of the properties: the call of a step is the one last'       *)
(* records; geometry is taken from files and ranks, not from the code.     *)
(***************************************************************************)
MoveCalled == last'.op = "make_move"
EntryCalled == last'.op = "entry_fairy_piece"
Returned(res) == last'.res = res

\* odd turn = white to move
ToMove == IF turn % 2 = 1 THEN "white" ELSE "black"

\* the state a rejected call must leave alone
ListedState == <<turn, board_dict, game_state, player_1, player_2>>

FileOf(key) == name_to_location_dict[key] % 8
RankRowOf(key) == name_to_location_dict[key] \div 8

Sign(n) == IF n > 0 THEN 1 ELSE IF n < 0 THEN 0 - 1 ELSE 0

OnLine(from, to) ==
    /\ from # to
    /\ \/ FileOf(from) = FileOf(to)
       \/ RankRowOf(from) = RankRowOf(to)
       \/ Abs(FileOf(from) - FileOf(to)) = Abs(RankRowOf(from) - RankRowOf(to))

\* the squares strictly between two squares of one file, rank or diagonal
Between(from, to) ==
    IF ~OnLine(from, to) THEN {}
    ELSE LET df == Sign(FileOf(to) - FileOf(from))
             dr == Sign(RankRowOf(to) - RankRowOf(from))
             n  == IF FileOf(from) = FileOf(to)
                   THEN Abs(RankRowOf(to) - RankRowOf(from))
                   ELSE Abs(FileOf(to) - FileOf(from))
         IN  {key \in SquareKeys :
                 \E i \in 1..(n - 1) :
                     /\ FileOf(key) = FileOf(from) + i * df
                     /\ RankRowOf(key) = RankRowOf(from) + i * dr}

KingOnBoard(color) ==
    \E key \in SquareKeys :
        /\ board_dict[key] # None
        /\ get_name(board_dict[key]) = "king"
        /\ get_color(board_dict[key]) = color

SlidingNames == {"rook", "bishop", "queen", "hunter", "falcon"}

\* C1: a make_move call that returns False leaves the turn counter, every
\* square and stable slot, the outcome and both players' lists unchanged.
C1_RejectedMoveKeepsState ==
    [][(MoveCalled /\ Returned("False")) => UNCHANGED ListedState]_vars

\* a movable piece of the side to move was asked to move and was refused
C1_Witness ==
    /\ last.op = "make_move" /\ last.res = "False"
    /\ game_state = "UNFINISHED" /\ turn = 2
    /\ last.arg1 \in SquareKeys /\ last.arg2 \in SquareKeys
    /\ last.arg1 # last.arg2
    /\ board_dict[last.arg1] # None
    /\ get_color(board_dict[last.arg1]) = ToMove

\* C2: the turn counter starts at 1, grows by exactly 1 on every call that
\* returns True and keeps its value on every other call.
C2_TurnCounter ==
    /\ turn = 1
    /\ [][/\ (MoveCalled \/ EntryCalled) /\ Returned("True") => turn' = turn + 1
          /\ ~Returned("True") => turn' = turn]_vars

\* an accepted entry followed the accepted moves
C2_Witness ==
    /\ last.op = "entry_fairy_piece" /\ last.res = "True"
    /\ turn = 4

\* C3: a won outcome never changes again, and every later make_move call
\* returns False and changes nothing.
C3_WonIsTerminalForMoves ==
    [][game_state # "UNFINISHED" =>
         /\ game_state' = game_state
         /\ MoveCalled => /\ Returned("False")
                          /\ UNCHANGED <<ListedState, first_move>>]_vars

\* after the win, the side to move asked to move one of its pieces
C3_Witness ==
    /\ game_state = "WHITE_WON"
    /\ last.op = "make_move" /\ last.res = "False"
    /\ last.arg1 \in SquareKeys /\ last.arg2 \in SquareKeys
    /\ last.arg1 # last.arg2
    /\ board_dict[last.arg1] # None
    /\ get_color(board_dict[last.arg1]) = ToMove

\* C4: once a king has been captured, every entry_fairy_piece call returns
\* False and changes nothing.
C4_NoEntryAfterWin ==
    [][(game_state # "UNFINISHED" /\ EntryCalled) =>
         /\ Returned("False")
         /\ UNCHANGED <<ListedState, first_move>>]_vars

\* C5: the outcome is UNFINISHED exactly when both kings stand on the
\* board, BLACK_WON when the white king is gone, WHITE_WON when the black
\* king is gone, and only an accepted make_move changes it.
C5_OutcomeFollowsKings ==
    /\ [](game_state = IF ~KingOnBoard("white") THEN "BLACK_WON"
                       ELSE IF ~KingOnBoard("black") THEN "WHITE_WON"
                       ELSE "UNFINISHED")
    /\ [][game_state' # game_state => MoveCalled /\ Returned("True")]_vars

\* the move that took the white king has just returned
C5_Witness ==
    /\ game_state = "BLACK_WON"
    /\ ~KingOnBoard("white")
    /\ last.op = "make_move" /\ last.res = "True"

\* C6: make_move returns False when the source holds no piece or a piece
\* of the side that is not to move; an accepted move moves a piece of the
\* side to move.
C6_OnlySideToMoveMoves ==
    [][MoveCalled =>
         /\ (/\ last'.arg1 \in BoardKeys
             /\ \/ board_dict[last'.arg1] = None
                \/ get_color(board_dict[last'.arg1]) # ToMove)
            => Returned("False") /\ UNCHANGED ListedState
         /\ Returned("True") =>
                /\ board_dict[last'.arg1] # None
                /\ get_color(board_dict[last'.arg1]) = ToMove]_vars

\* a piece of the side that is not to move was asked to move
C6_Witness ==
    /\ last.op = "make_move" /\ last.res = "False"
    /\ game_state = "UNFINISHED" /\ turn = 2
    /\ last.arg1 \in SquareKeys
    /\ board_dict[last.arg1] # None
    /\ get_color(board_dict[last.arg1]) # ToMove

\* C7: no call ends in a fault, and a call naming something that is not
\* one of the 64 squares returns False and changes nothing.
C7_NoFault ==
    [][(MoveCalled \/ EntryCalled) =>
         /\ last'.res \in {"True", "False"}
         /\ (\/ MoveCalled /\ last'.arg1 \notin SquareKeys
             \/ last'.arg2 \notin SquareKeys)
            => Returned("False") /\ UNCHANGED ListedState]_vars

\* C8: an accepted move of a sliding piece, or an accepted double step of
\* a pawn, has no occupied square strictly between origin and destination.
C8_NoJump ==
    [][(MoveCalled /\ Returned("True")) =>
         LET moving_piece == board_dict[last'.arg1]
         IN  (\/ get_name(moving_piece) \in SlidingNames
              \/ /\ get_name(moving_piece) = "pawn"
                 /\ Abs(name_to_location_dict[last'.arg1]
                        - name_to_location_dict[last'.arg2]) = 16)
             => \A key \in Between(last'.arg1, last'.arg2) :
                    board_dict[key] = None]_vars

\* C9: an accepted move never ends on a square held by the mover's own
\* colour, and a player's piece is recorded as captured only on a move of
\* the other player.
C9_NoFriendlyFire ==
    [][(MoveCalled /\ Returned("True")) =>
         /\ last'.arg1 # last'.arg2
         /\ \/ board_dict[last'.arg2] = None
            \/ get_color(board_dict[last'.arg2]) # get_color(board_dict[last'.arg1])
         /\ player_1'.captured_pieces # player_1.captured_pieces => ToMove = "black"
         /\ player_2'.captured_pieces # player_2.captured_pieces => ToMove = "white"]_vars

\* a move that only the colour of the destination's occupant forbids was
\* refused
C9_Witness ==
    /\ last.op = "make_move" /\ last.res = "False"
    /\ game_state = "UNFINISHED"
    /\ last.arg1 \in SquareKeys /\ last.arg2 \in SquareKeys
    /\ last.arg1 # last.arg2
    /\ board_dict[last.arg1] # None /\ board_dict[last.arg2] # None
    /\ get_color(board_dict[last.arg1]) = ToMove
    /\ get_color(board_dict[last.arg2]) = ToMove
    /\ LET vm == valid_move(State, board_dict[last.arg1],
                            name_to_location_dict[last.arg1],
                            name_to_location_dict[last.arg2],
                            board_dict[last.arg2])
       IN  /\ vm.ok
           /\ ~path_blocked(State, vm.list, name_to_location_dict[last.arg1],
                            name_to_location_dict[last.arg2])

\* C10: an accepted move onto an enemy piece appends that piece's kind
\* once to the captured list of the piece's owner, leaves the mover's
\* captured list alone and leaves the piece on none of the 64 squares; an
\* accepted move onto an empty square changes neither captured list.
C10_CaptureBookkeeping ==
    [][(MoveCalled /\ Returned("True")) =>
         LET occ == board_dict[last'.arg2]
         IN  IF occ = None
             THEN /\ player_1'.captured_pieces = player_1.captured_pieces
                  /\ player_2'.captured_pieces = player_2.captured_pieces
             ELSE /\ IF get_color(occ) = "white"
                     THEN /\ player_1'.captured_pieces =
                                 Append(player_1.captured_pieces, get_name(occ))
                          /\ player_2'.captured_pieces = player_2.captured_pieces
                     ELSE /\ player_2'.captured_pieces =
                                 Append(player_2.captured_pieces, get_name(occ))
                          /\ player_1'.captured_pieces = player_1.captured_pieces
                  /\ \A key \in SquareKeys : board_dict'[key] # occ]_vars

\* the black bishop has just taken the white pawn on d2
C10_Witness ==
    /\ last = [op |-> "make_move", arg1 |-> "c8", arg2 |-> "d2", res |-> "True"]
    /\ board_dict["d2"] = "c8"
    /\ player_1.captured_pieces = <<"pawn">>
    /\ player_2.captured_pieces = <<>>

(***************************************************************************)
(* Fairy entry.                                                            *)
(***************************************************************************)
FairyCodes == {"F", "H", "f", "h"}

\* the colour and the kind a piece_type code stands for
CodeColor(code) == IF code \in {"F", "H"} THEN "white" ELSE "black"
CodeKind(code) == IF code \in {"F", "f"} THEN "falcon" ELSE "hunter"

\* the Player object of a colour
PlayerOf(color) == IF color = "white" THEN player_1 ELSE player_2
PlayerOfNext(color) == IF color = "white" THEN player_1' ELSE player_2'

Opponent(color) == IF color = "white" THEN "black" ELSE "white"

GateKinds == {"rook", "knight", "bishop", "queen"}

\* a piece of the opponent of this colour, of one of the four kinds, has
\* been captured (make_move records it in the list of the piece's owner)
HasCapturedGateKind(color) ==
    \E kind \in GateKinds : Contains(PlayerOf(Opponent(color)).captured_pieces, kind)

\* C11: no entry is accepted while the colour to move has not captured a
\* rook, knight, bishop or queen.
C11_EntryNeedsCapture ==
    [][(EntryCalled /\ ~HasCapturedGateKind(ToMove)) => ~Returned("True")]_vars

\* C12: an accepted entry of kind k by colour c finds k in c's own stable,
\* removes it from there and leaves the opponent's stable unchanged.
C12_EntryUsesOwnStable ==
    [][(EntryCalled /\ Returned("True")) =>
         LET kind == CodeKind(last'.arg1)
         IN  /\ Contains(PlayerOf(ToMove).fairy_pieces_stable, kind)
             /\ PlayerOfNext(ToMove).fairy_pieces_stable =
                    ListRemove(PlayerOf(ToMove).fairy_pieces_stable, kind)
             /\ PlayerOfNext(Opponent(ToMove)).fairy_pieces_stable =
                    PlayerOf(Opponent(ToMove)).fairy_pieces_stable]_vars

\* C14: no piece object is the occupant of two of the 68 slots.
C14_OneSlotPerPiece ==
    \A key1 \in BoardKeys, key2 \in BoardKeys :
        (key1 # key2 /\ board_dict[key1] # None) => board_dict[key1] # board_dict[key2]

HomeLocations(color) == IF color = "white" THEN 48..63 ELSE 0..15

\* C15: an accepted entry names an empty square of the home ranks of the
\* colour to move, changes no other square and records no capture.
C15_EntryOnEmptyHomeSquare ==
    [][(EntryCalled /\ Returned("True")) =>
         /\ last'.arg2 \in SquareKeys
         /\ board_dict[last'.arg2] = None
         /\ name_to_location_dict[last'.arg2] \in HomeLocations(ToMove)
         /\ \A key \in SquareKeys \ {last'.arg2} : board_dict'[key] = board_dict[key]
         /\ player_1'.captured_pieces = player_1.captured_pieces
         /\ player_2'.captured_pieces = player_2.captured_pieces]_vars

\* white's fairy piece has just entered on f1, which the bishop had left
C15_Witness ==
    /\ last.op = "entry_fairy_piece" /\ last.res = "True"
    /\ last.arg2 = "f1"
    /\ board_dict["f1"] \in {"F", "H"}
    /\ turn = 4

\* C16: an entry is accepted only with a code of the colour to move, and
\* a call with any other code returns False.
C16_EntryOnlyForSideToMove ==
    [][EntryCalled =>
         /\ Returned("True") =>
                last'.arg1 \in FairyCodes /\ CodeColor(last'.arg1) = ToMove
         /\ (last'.arg1 \notin FairyCodes \/ CodeColor(last'.arg1) # ToMove)
                => Returned("False")]_vars

(***************************************************************************)
(* A longer game on fewer squares, in which a colour can enter a fairy     *)
(* piece, see a home square emptied again and attempt a second entry.      *)
(***************************************************************************)
\* calls are explored while the turn counter is at most MaxEntryTurn
MaxEntryTurn == 5

EntryGameSquares == {"f1", "a3", "c8", "d2", "f7", "f5", "z9"}

EntryGameEntrySquares == {"f1", "d2", "f7", "z9"}

MoveInEntryGame(current_square, new_square) ==
    /\ turn <= MaxEntryTurn
    /\ LET r == make_move(State, current_square, new_square)
       IN  /\ Assign(r.st)
           /\ last' = [op |-> "make_move", arg1 |-> current_square,
                       arg2 |-> new_square, res |-> r.res]

EntryInEntryGame(piece_type, entry_square) ==
    /\ turn <= MaxEntryTurn
    /\ LET r == entry_fairy_piece(State, piece_type, entry_square)
       IN  /\ Assign(r.st)
           /\ last' = [op |-> "entry_fairy_piece", arg1 |-> piece_type,
                       arg2 |-> entry_square, res |-> r.res]

NextEntryGame ==
    \/ \E current_square \in EntryGameSquares, new_square \in EntryGameSquares :
           MoveInEntryGame(current_square, new_square)
    \/ \E piece_type \in PieceTypeInputs, entry_square \in EntryGameEntrySquares :
           EntryInEntryGame(piece_type, entry_square)

SpecEntryGame == Init /\ [][NextEntryGame]_vars

\* the fairy piece of this code has been entered: its object stands on a
\* square, or it stood on one and was captured there
Entered(code) ==
    \/ \E key \in SquareKeys : board_dict[key] = code
    \/ Contains(PlayerOf(CodeColor(code)).captured_pieces, CodeKind(code))

\* C13: after an accepted entry of a kind by a colour, every later entry
\* call of that colour with the same kind returns False.
C13_EntryAtMostOnce ==
    [][(/\ EntryCalled
        /\ last'.arg1 \in FairyCodes
        /\ CodeColor(last'.arg1) = ToMove
        /\ Entered(last'.arg1)) => Returned("False")]_vars

\* the same with "is not accepted" for "returns False"
EntryNotAcceptedTwice ==
    [][(/\ EntryCalled
        /\ last'.arg1 \in FairyCodes
        /\ CodeColor(last'.arg1) = ToMove
        /\ Entered(last'.arg1)) => ~Returned("True")]_vars

(***************************************************************************)
(* The constructed match.                                                  *)
(***************************************************************************)
BackRank == <<"rook", "knight", "bishop", "queen", "king", "bishop", "knight", "rook">>

\* the piece the standard layout puts on a location, as <<color, kind>>
StandardOccupant(location) ==
    LET row == location \div 8
        col == location % 8
    IN  IF row = 0 THEN <<"black", BackRank[col + 1]>>
        ELSE IF row = 1 THEN <<"black", "pawn">>
        ELSE IF row = 6 THEN <<"white", "pawn">>
        ELSE IF row = 7 THEN <<"white", BackRank[col + 1]>>
        ELSE <<>>

OccupantAt(key) ==
    IF board_dict[key] = None THEN <<>>
    ELSE <<get_color(board_dict[key]), get_name(board_dict[key])>>

SameMembers(list, set) ==
    /\ Len(list) = Cardinality(set)
    /\ \A kind \in set : Contains(list, kind)

\* C18: the constructed match has turn 1 with white to move, outcome
\* UNFINISHED, the standard pieces on ranks 1-2 and 7-8, ranks 3-6 empty,
\* empty captured lists, hunter and falcon in both stables and no hunter or
\* falcon on the 64 squares.
C18_FreshMatch ==
    last.op = "__init__" =>
        /\ turn = 1 /\ ToMove = "white"
        /\ game_state = "UNFINISHED"
        /\ \A key \in SquareKeys :
               OccupantAt(key) = StandardOccupant(name_to_location_dict[key])
        /\ \A key \in SquareKeys :
               board_dict[key] # None => get_name(board_dict[key]) \notin {"hunter", "falcon"}
        /\ \A key1 \in SquareKeys, key2 \in SquareKeys :
               (key1 # key2 /\ board_dict[key1] # None) => board_dict[key1] # board_dict[key2]
        /\ player_1.captured_pieces = <<>> /\ player_2.captured_pieces = <<>>
        /\ SameMembers(player_1.fairy_pieces_stable, {"hunter", "falcon"})
        /\ SameMembers(player_2.fairy_pieces_stable, {"hunter", "falcon"})

C18_Witness ==
    /\ last.op = "__init__"
    /\ Cardinality({key \in SquareKeys : board_dict[key] # None}) = 32
    /\ OccupantAt("e1") = <<"white", "king">>
    /\ OccupantAt("d8") = <<"black", "queen">>

(***************************************************************************)
(* The two coordinate conversions of Board, applied one after the other    *)
(* to every square name and to every location.  Locations are recorded in  *)
(* `last` in decimal notation.                                             *)
(***************************************************************************)
NameRoundTrip(space_name) ==
    /\ LET location == get_space_name_as_location(space_name).val
       IN  last' = [op |-> "name_round_trip", arg1 |-> space_name,
                    arg2 |-> ToString(location),
                    res |-> get_location_as_space_name(location)]
    /\ UNCHANGED <<turn, game_state, board_dict, first_move, player_1, player_2>>

LocationRoundTrip(location) ==
    /\ LET space_name == get_location_as_space_name(location)
       IN  last' = [op |-> "location_round_trip", arg1 |-> ToString(location),
                    arg2 |-> space_name,
                    res |-> ToString(get_space_name_as_location(space_name).val)]
    /\ UNCHANGED <<turn, game_state, board_dict, first_move, player_1, player_2>>

NextCoordinates ==
    \/ \E space_name \in SquareKeys : NameRoundTrip(space_name)
    \/ \E location \in Locations : LocationRoundTrip(location)

SpecCoordinates == Init /\ [][NextCoordinates]_vars

FileLetters == <<"a", "b", "c", "d", "e", "f", "g", "h">>

\* row-major numbering from a8 = 0 to h1 = 63
RowMajorName(location) ==
    FileLetters[(location % 8) + 1] \o ToString(8 - (location \div 8))

\* C19: converting a square name to its location and back gives the name,
\* converting a location to its name and back gives the location, and the
\* mapping is the row-major numbering with a8 = 0 and h1 = 63.
C19_CoordinateRoundTrip ==
    /\ last.op = "name_round_trip" =>
           /\ last.res = last.arg1
           /\ \E location \in Locations :
                  /\ last.arg2 = ToString(location)
                  /\ RowMajorName(location) = last.arg1
    /\ last.op = "location_round_trip" =>
           /\ last.res = last.arg1
           /\ \E location \in Locations :
                  /\ last.arg1 = ToString(location)
                  /\ RowMajorName(location) = last.arg2

C19_Witness ==
    /\ last.op = "location_round_trip"
    /\ last.arg1 = "63" /\ last.arg2 = "h1" /\ last.res = "63"

(***************************************************************************)
(* Pawn play on the a and b files and a black pawn on the h file: single   *)
(* and double steps, a knight in the way, a capture, a blocked step and a  *)
(* diagonal across the edge of the board.                                  *)
(***************************************************************************)
PawnSquares == {"a2", "a3", "a4", "a5", "a7", "b1", "b5", "b7", "h7"}

NextPawn ==
    \E current_square \in PawnSquares, new_square \in PawnSquares :
        MakeMove(current_square, new_square)

SpecPawn == Init /\ [][NextPawn]_vars

\* rows are counted from rank 8: white pawns advance to the lower row
Forward(color) == IF color = "white" THEN 0 - 1 ELSE 1

SingleStep(from, to, color) ==
    /\ FileOf(to) = FileOf(from)
    /\ RankRowOf(to) = RankRowOf(from) + Forward(color)
    /\ board_dict[to] = None

DoubleStep(from, to, color) ==
    /\ FileOf(to) = FileOf(from)
    /\ RankRowOf(to) = RankRowOf(from) + 2 * Forward(color)
    /\ board_dict[to] = None
    /\ \A key \in SquareKeys :
           (FileOf(key) = FileOf(from) /\ RankRowOf(key) = RankRowOf(from) + Forward(color))
               => board_dict[key] = None

DiagonalCapture(from, to, color) ==
    /\ Abs(FileOf(to) - FileOf(from)) = 1
    /\ RankRowOf(to) = RankRowOf(from) + Forward(color)
    /\ board_dict[to] # None
    /\ get_color(board_dict[to]) # color

PawnMoved ==
    /\ MoveCalled
    /\ last'.arg1 \in BoardKeys
    /\ board_dict[last'.arg1] \in PawnObjects

\* C17: an accepted pawn move is a single step straight forward onto an
\* empty square, a double step straight forward over and onto empty squares,
\* or a single diagonal step forward to the adjacent file onto an enemy
\* piece; so a straight move onto an occupied square, a diagonal move onto
\* an empty square and a diagonal across the a/h edge are rejected.
C17_PawnMoves ==
    [][(PawnMoved /\ Returned("True")) =>
         /\ last'.arg1 \in SquareKeys /\ last'.arg2 \in SquareKeys
         /\ LET from  == last'.arg1
                to    == last'.arg2
                color == get_color(board_dict[from])
            IN  \/ SingleStep(from, to, color)
                \/ DoubleStep(from, to, color)
                \/ DiagonalCapture(from, to, color)]_vars

\* the white a-pawn took the black b-pawn
C17_Witness ==
    /\ last = [op |-> "make_move", arg1 |-> "a4", arg2 |-> "b5", res |-> "True"]
    /\ board_dict["b5"] = "a2"
    /\ board_dict["a4"] = None
    /\ Contains(player_2.captured_pieces, "pawn")

\* the black h-pawn was refused the diagonal across the edge onto a white pawn
PawnWrapRefused ==
    /\ last = [op |-> "make_move", arg1 |-> "h7", arg2 |-> "a5", res |-> "False"]
    /\ board_dict["h7"] = "h7"
    /\ board_dict["a5"] = "a2"
    /\ turn = 4

\* the white a-pawn was refused the step onto the black a-pawn
PawnStepOntoPieceRefused ==
    /\ last = [op |-> "make_move", arg1 |-> "a4", arg2 |-> "a5", res |-> "False"]
    /\ board_dict["a4"] = "a2"
    /\ board_dict["a5"] = "a7"

\* the white a-pawn was refused the double step over its own knight
PawnDoubleStepOverPieceRefused ==
    /\ last = [op |-> "make_move", arg1 |-> "a2", arg2 |-> "a4", res |-> "False"]
    /\ board_dict["a3"] = "b1"
    /\ board_dict["a4"] = None
    /\ turn = 3

(***************************************************************************)
(* Rooks and a queen on their files: the a file with both rooks and their  *)
(* pawns, the d file with the white queen, its pawn and a black bishop     *)
(* that lands on d2.                                                       *)
(***************************************************************************)
FileSquares == {"a1", "a2", "a3", "a4", "a6", "a7", "a8", "d1", "d2", "d3", "c8"}

NextFile ==
    \E current_square \in FileSquares, new_square \in FileSquares :
        MakeMove(current_square, new_square)

SpecFile == Init /\ [][NextFile]_vars

FileMoveCalled ==
    /\ MoveCalled
    /\ last'.arg1 \in SquareKeys /\ last'.arg2 \in SquareKeys
    /\ last'.arg1 # last'.arg2
    /\ FileOf(last'.arg1) = FileOf(last'.arg2)
    /\ board_dict[last'.arg1] # None
    /\ get_name(board_dict[last'.arg1]) \in {"rook", "queen"}

\* C20: a rook or queen asked to move along its file, up or down, is
\* refused when a square strictly between origin and destination holds a
\* piece of either colour.
C20_NoJumpOnFile ==
    [][(/\ FileMoveCalled
        /\ \E key \in Between(last'.arg1, last'.arg2) : board_dict[key] # None)
           => Returned("False")]_vars

\* the white queen was refused the move over the black bishop on d2
C20_Witness ==
    /\ last = [op |-> "make_move", arg1 |-> "d1", arg2 |-> "d3", res |-> "False"]
    /\ board_dict["d1"] = "d1"
    /\ board_dict["d2"] = "c8"
    /\ board_dict["d3"] = None
    /\ turn = 3

\* the white rook was refused the move over its own pawn two squares ahead
RookRefusedOverOwnPawn ==
    /\ last = [op |-> "make_move", arg1 |-> "a1", arg2 |-> "a6", res |-> "False"]
    /\ board_dict["a2"] = None /\ board_dict["a3"] = None
    /\ board_dict["a4"] = "a2"
    /\ board_dict["a6"] = None
    /\ turn = 3

\* the black rook was refused the move down the file over its own pawn
RookRefusedDownTheFile ==
    /\ last = [op |-> "make_move", arg1 |-> "a8", arg2 |-> "a6", res |-> "False"]
    /\ board_dict["a7"] = "a7"
    /\ board_dict["a6"] = None
    /\ turn = 2

\* the white rook moved up the cleared file
RookMovedOnClearFile ==
    /\ last = [op |-> "make_move", arg1 |-> "a1", arg2 |-> "a3", res |-> "True"]
    /\ board_dict["a3"] = "a1"

(***************************************************************************)
(* Refused entries.                                                        *)
(***************************************************************************)
\* C21: an entry_fairy_piece call that returns False leaves the turn
\* counter, every square and stable slot, the outcome and both players'
\* stable, active and captured lists unchanged.
C21_RejectedEntryKeepsState ==
    [][(EntryCalled /\ Returned("False")) =>
         /\ turn' = turn
         /\ game_state' = game_state
         /\ \A key \in BoardKeys : board_dict'[key] = board_dict[key]
         /\ player_1' = player_1
         /\ player_2' = player_2]_vars

\* the colour to move was refused a second falcon on an empty home square
C21_Witness ==
    /\ last = [op |-> "entry_fairy_piece", arg1 |-> "F", arg2 |-> "d2", res |-> "False"]
    /\ turn = 5
    /\ board_dict["d2"] = None
    /\ board_dict["f1"] = "F"

(***************************************************************************)
(* The white a-pawn behind its knight, and the black a-pawn: the knight    *)
(* stands on a3 while the pawn is asked to move, and returns to b1.        *)
(***************************************************************************)
\* calls are explored while the turn counter is at most MaxFlagTurn
MaxFlagTurn == 5

FlagSquares == {"a2", "a3", "a4", "b1", "a7", "a6", "a5"}

MoveInFlagGame(current_square, new_square) ==
    /\ turn <= MaxFlagTurn
    /\ LET r == make_move(State, current_square, new_square)
       IN  /\ Assign(r.st)
           /\ last' = [op |-> "make_move", arg1 |-> current_square,
                       arg2 |-> new_square, res |-> r.res]

NextFlagGame ==
    \E current_square \in FlagSquares, new_square \in FlagSquares :
        MoveInFlagGame(current_square, new_square)

SpecFlagGame == Init /\ [][NextFlagGame]_vars

\* a pawn moves forward only: one that stands on the square it was created
\* on has made no accepted move
NeverMoved(pawn) == board_dict[pawn] = pawn

PawnToMoveCalled ==
    /\ PawnMoved
    /\ game_state = "UNFINISHED"
    /\ get_color(board_dict[last'.arg1]) = ToMove
    /\ last'.arg1 \in SquareKeys /\ last'.arg2 \in SquareKeys

\* C22: a pawn that has made no accepted move is allowed the double step
\* whenever the two squares ahead of it are empty, whatever was refused
\* before; a pawn that has made an accepted move is refused the double step.
C22_FirstMoveFlag ==
    [][PawnToMoveCalled =>
         LET from  == last'.arg1
             to    == last'.arg2
             color == get_color(board_dict[from])
         IN  /\ (NeverMoved(board_dict[from]) /\ DoubleStep(from, to, color))
                    => Returned("True")
             /\ (~NeverMoved(board_dict[from]) /\ DoubleStep(from, to, color))
                    => Returned("False")]_vars

\* the flag of a pawn changes only in an accepted move of that pawn
FlagClearedByAcceptedMove ==
    [][\A pawn \in PawnObjects :
           first_move'[pawn] # first_move[pawn] =>
               /\ MoveCalled /\ Returned("True")
               /\ last'.arg1 \in BoardKeys
               /\ board_dict[last'.arg1] = pawn]_vars

\* a pawn that has made an accepted move is refused the double step
MovedPawnHasNoDoubleStep ==
    [][PawnToMoveCalled =>
         LET from  == last'.arg1
             to    == last'.arg2
             color == get_color(board_dict[from])
         IN  (~NeverMoved(board_dict[from]) /\ DoubleStep(from, to, color))
                 => Returned("False")]_vars

(***************************************************************************)
(* The knights of b1 and g8 and the squares at index distances 6, 10, 14,  *)
(* 15 and 17 from them.                                                    *)
(***************************************************************************)
KnightSquares == {"b1", "a3", "c3", "d3", "h3", "g8", "f6", "a6"}

NextKnight ==
    \E current_square \in KnightSquares, new_square \in KnightSquares :
        MakeMove(current_square, new_square)

SpecKnight == Init /\ [][NextKnight]_vars

FileDelta(from, to) == Abs(FileOf(to) - FileOf(from))
RankDelta(from, to) == Abs(RankRowOf(to) - RankRowOf(from))

PieceMoved(name) ==
    /\ MoveCalled
    /\ last'.arg1 \in SquareKeys /\ last'.arg2 \in SquareKeys
    /\ board_dict[last'.arg1] # None
    /\ get_name(board_dict[last'.arg1]) = name

\* C23: an accepted knight move has file and rank deltas (1,2) or (2,1);
\* an index difference of 14, and a difference of 6, 10, 15 or 17 across
\* the a/h edge, are rejected.
C23_KnightGeometry ==
    [][(PieceMoved("knight") /\ Returned("True")) =>
         <<FileDelta(last'.arg1, last'.arg2), RankDelta(last'.arg1, last'.arg2)>>
             \in {<<1, 2>>, <<2, 1>>}]_vars

(***************************************************************************)
(* The valid_move methods of the pieces, each called once on a fresh       *)
(* match with every pair of locations.  `last` records the two squares by  *)
(* name, whether a list or None was returned, and the list.                *)
(***************************************************************************)
Called(class, piece, cur, new, r) ==
    /\ last' = [op |-> class, arg1 |-> get_location_as_space_name(cur),
                arg2 |-> get_location_as_space_name(new),
                res |-> IF r.ok THEN "list" ELSE "None",
                piece |-> piece, path |-> r.list]
    /\ UNCHANGED <<turn, game_state, board_dict, first_move, player_1, player_2>>

KingValidMove(piece, cur, new) ==
    Called("King.valid_move", piece, cur, new, King_valid_move(cur, new))

RookValidMove(piece, cur, new) ==
    Called("Rook.valid_move", piece, cur, new, Rook_valid_move(cur, new))

HunterValidMove(piece, cur, new) ==
    Called("Hunter.valid_move", piece, cur, new, Hunter_valid_move(piece, cur, new))

FalconValidMove(piece, cur, new) ==
    Called("Falcon.valid_move", piece, cur, new, Falcon_valid_move(piece, cur, new))

\* no call has been made on this match
Fresh == last.op = "__init__"

NextGeometry ==
    \/ Fresh /\ \E piece \in {"e1", "e8"}, cur \in Locations, new \in Locations :
                    KingValidMove(piece, cur, new)
    \/ Fresh /\ \E piece \in {"a1", "a8"}, cur \in Locations, new \in Locations :
                    RookValidMove(piece, cur, new)
    \/ Fresh /\ \E piece \in {"H", "h"}, cur \in Locations, new \in Locations :
                    HunterValidMove(piece, cur, new)
    \/ Fresh /\ \E piece \in {"F", "f"}, cur \in Locations, new \in Locations :
                    FalconValidMove(piece, cur, new)

SpecGeometry == Init /\ [][NextGeometry]_vars

\* C24: the king is given a move only to an adjacent square: file delta and
\* rank delta at most 1 and not both 0; index differences of 1, 7 or 9
\* across the a/h edge are refused.
C24_KingGeometry ==
    (last.op = "King.valid_move" /\ last.res = "list") =>
        /\ last.arg1 # last.arg2
        /\ FileDelta(last.arg1, last.arg2) <= 1
        /\ RankDelta(last.arg1, last.arg2) <= 1

(***************************************************************************)
(* Bishops in the game.                                                    *)
(***************************************************************************)
\* C25: an accepted bishop move joins two squares of one diagonal (equal,
\* non-zero file and rank deltas) with every square between them empty;
\* moves along a rank or file or around the edge of the board are refused
\* even when the index difference is a multiple of 7 or 9.
C25_BishopGeometry ==
    [][(PieceMoved("bishop") /\ Returned("True")) =>
         /\ FileDelta(last'.arg1, last'.arg2) = RankDelta(last'.arg1, last'.arg2)
         /\ last'.arg1 # last'.arg2
         /\ \A key \in Between(last'.arg1, last'.arg2) : board_dict[key] = None]_vars

RookCalled == last.op = "Rook.valid_move"

OnRankOrFile(from, to) ==
    FileOf(from) = FileOf(to) \/ RankRowOf(from) = RankRowOf(to)

\* C26: Rook.valid_move returns a list exactly when origin and destination
\* share a file or share a rank, and None otherwise.
C26_RookLines ==
    RookCalled => (last.res = "list" <=> OnRankOrFile(last.arg1, last.arg2))

\* the rook was refused the square one file and one rank away
C26_Witness ==
    /\ RookCalled
    /\ last.arg1 = "a1" /\ last.arg2 = "b2"
    /\ last.res = "None"

\* the rook was given the far end of its rank
RookGivenRank ==
    /\ RookCalled
    /\ last.arg1 = "h1" /\ last.arg2 = "a1"
    /\ last.res = "list"

PathSquares == {get_location_as_space_name(last.path[i]) : i \in 1..Len(last.path)}

\* C27: for a rook move between two distinct squares of one rank or file,
\* in either direction, the returned list contains every square strictly
\* between origin and destination.
C27_RookPathComplete ==
    (RookCalled /\ last.arg1 # last.arg2 /\ OnRankOrFile(last.arg1, last.arg2)) =>
        /\ last.res = "list"
        /\ Between(last.arg1, last.arg2) \subseteq PathSquares

\* the same for moves along a file only
RookFilePathComplete ==
    (RookCalled /\ last.arg1 # last.arg2 /\ FileOf(last.arg1) = FileOf(last.arg2)) =>
        /\ last.res = "list"
        /\ Between(last.arg1, last.arg2) \subseteq PathSquares

(***************************************************************************)
(* The two queens with the pawns in front of them and the ends of their    *)
(* diagonals.                                                              *)
(***************************************************************************)
QueenSquares == {"d1", "d2", "d3", "e2", "e4", "g4", "d8", "c7", "c6", "a5"}

NextQueen ==
    \E current_square \in QueenSquares, new_square \in QueenSquares :
        MakeMove(current_square, new_square)

SpecQueen == Init /\ [][NextQueen]_vars

\* a rook and a bishop object of each colour
RookOf(color) == IF color = "white" THEN "a1" ELSE "a8"
BishopOf(color) == IF color = "white" THEN "c1" ELSE "c8"

\* make_move called on the present match with another piece on the square
AcceptedWith(piece, current_square, new_square) ==
    make_move([State EXCEPT !.board_dict[current_square] = piece],
              current_square, new_square).res = "True"

\* C28: make_move accepts a queen's move exactly when it accepts the same
\* move, on the same board, of a rook or of a bishop of the queen's colour
\* standing on the queen's square.
C28_QueenIsRookOrBishop ==
    [][PieceMoved("queen") =>
         LET color == get_color(board_dict[last'.arg1])
         IN  Returned("True") <=>
                 \/ AcceptedWith(RookOf(color), last'.arg1, last'.arg2)
                 \/ AcceptedWith(BishopOf(color), last'.arg1, last'.arg2)]_vars

\* the same, one way: what is accepted of the queen is accepted of a rook
\* or of a bishop
QueenWithinRookOrBishop ==
    [][(PieceMoved("queen") /\ Returned("True")) =>
         LET color == get_color(board_dict[last'.arg1])
         IN  \/ AcceptedWith(RookOf(color), last'.arg1, last'.arg2)
             \/ AcceptedWith(BishopOf(color), last'.arg1, last'.arg2)]_vars

(***************************************************************************)
(* Hunter and falcon.                                                      *)
(***************************************************************************)
\* the index of the destination is higher, or lower, than that of the origin
ToHigherIndex(from, to) == name_to_location_dict[to] > name_to_location_dict[from]
ToLowerIndex(from, to) == name_to_location_dict[to] < name_to_location_dict[from]

\* the direction in which the hunter of a colour rook-moves
InRookDirection(color, from, to) ==
    IF color = "black" THEN ToHigherIndex(from, to) ELSE ToLowerIndex(from, to)

AgainstRookDirection(color, from, to) ==
    IF color = "black" THEN ToLowerIndex(from, to) ELSE ToHigherIndex(from, to)

OnFileOf(from, to) == from # to /\ FileOf(from) = FileOf(to)

OnDiagonalOf(from, to) ==
    from # to /\ FileDelta(from, to) = RankDelta(from, to)

\* C29: the hunter is given a move only along its file in its rook
\* direction (to a higher index for black, a lower one for white) or along
\* a true diagonal in the other index direction.
C29_HunterGeometry ==
    (last.op = "Hunter.valid_move" /\ last.res = "list") =>
        LET color == get_color(last.piece)
        IN  \/ OnFileOf(last.arg1, last.arg2)
               /\ InRookDirection(color, last.arg1, last.arg2)
            \/ OnDiagonalOf(last.arg1, last.arg2)
               /\ AgainstRookDirection(color, last.arg1, last.arg2)

\* C30: the falcon is given a move only along a true diagonal in the
\* direction in which the hunter of its colour rook-moves, or along its file
\* in the other index direction.
C30_FalconGeometry ==
    (last.op = "Falcon.valid_move" /\ last.res = "list") =>
        LET color == get_color(last.piece)
        IN  \/ OnDiagonalOf(last.arg1, last.arg2)
               /\ InRookDirection(color, last.arg1, last.arg2)
            \/ OnFileOf(last.arg1, last.arg2)
               /\ AgainstRookDirection(color, last.arg1, last.arg2)

\* the directions alone: a hunter is given no move along its file against
\* its rook direction and no other move in its rook direction
HunterDirections ==
    (last.op = "Hunter.valid_move" /\ last.res = "list") =>
        LET color == get_color(last.piece)
        IN  IF OnFileOf(last.arg1, last.arg2)
            THEN InRookDirection(color, last.arg1, last.arg2)
            ELSE AgainstRookDirection(color, last.arg1, last.arg2)

FalconDirections ==
    (last.op = "Falcon.valid_move" /\ last.res = "list") =>
        LET color == get_color(last.piece)
        IN  IF OnFileOf(last.arg1, last.arg2)
            THEN AgainstRookDirection(color, last.arg1, last.arg2)
            ELSE InRookDirection(color, last.arg1, last.arg2)

(***************************************************************************)
(* The players' lists against the board.                                   *)
(***************************************************************************)
Kinds == {"pawn", "rook", "knight", "bishop", "queen", "king", "hunter", "falcon"}

\* occurrences of a kind label in a list
Count(list, kind) == Cardinality({i \in 1..Len(list) : list[i] = kind})

\* pieces of a colour and kind standing on the 64 squares
OnBoard(color, kind) ==
    Cardinality({key \in SquareKeys :
                    /\ board_dict[key] # None
                    /\ get_color(board_dict[key]) = color
                    /\ get_name(board_dict[key]) = kind})

\* C31: in every reachable state each player's active list holds, kind by
\* kind, as many labels as that player has pieces on the 64 squares.
C31_ActiveListMatchesBoard ==
    \A color \in {"white", "black"}, kind \in Kinds :
        Count(PlayerOf(color).active_pieces, kind) = OnBoard(color, kind)

\* the same for the kinds other than pawn, hunter and falcon
ActiveListMatchesOfficers ==
    \A color \in {"white", "black"}, kind \in {"rook", "knight", "bishop", "queen", "king"} :
        Count(PlayerOf(color).active_pieces, kind) = OnBoard(color, kind)

\* an accepted move onto a piece
CaptureAccepted ==
    /\ MoveCalled /\ Returned("True")
    /\ last'.arg2 \in BoardKeys
    /\ board_dict[last'.arg2] # None

\* C32: an accepted capture removes exactly one label of the captured
\* piece's kind from the active list of the captured piece's owner, whatever
\* the kind and however many pieces of the kind were taken before.
C32_CaptureRemovesActiveLabel ==
    [][CaptureAccepted =>
         LET occ   == board_dict[last'.arg2]
             owner == get_color(occ)
         IN  /\ Count(PlayerOfNext(owner).active_pieces, get_name(occ)) =
                    Count(PlayerOf(owner).active_pieces, get_name(occ)) - 1
             /\ \A kind \in Kinds \ {get_name(occ)} :
                    Count(PlayerOfNext(owner).active_pieces, kind) =
                        Count(PlayerOf(owner).active_pieces, kind)]_vars

\* the same for captured pieces other than hunters and falcons
CaptureRemovesStandardLabel ==
    [][(CaptureAccepted /\ get_name(board_dict[last'.arg2]) \notin {"hunter", "falcon"}) =>
         LET occ   == board_dict[last'.arg2]
             owner == get_color(occ)
         IN  Count(PlayerOfNext(owner).active_pieces, get_name(occ)) =
                 Count(PlayerOf(owner).active_pieces, get_name(occ)) - 1]_vars

(***************************************************************************)
(* What an accepted call changes on the board.                             *)
(***************************************************************************)
\* C33: an accepted make_move from x to y leaves x empty and the piece of x
\* on y, and changes no other square, no stable slot and neither player's
\* stable.
C33_MoveFrame ==
    [][(MoveCalled /\ Returned("True")) =>
         /\ last'.arg1 \in SquareKeys /\ last'.arg2 \in SquareKeys
         /\ board_dict[last'.arg1] # None
         /\ board_dict'[last'.arg1] = None
         /\ board_dict'[last'.arg2] = board_dict[last'.arg1]
         /\ \A key \in BoardKeys \ {last'.arg1, last'.arg2} :
                board_dict'[key] = board_dict[key]
         /\ player_1'.fairy_pieces_stable = player_1.fairy_pieces_stable
         /\ player_2'.fairy_pieces_stable = player_2.fairy_pieces_stable]_vars

\* the black f-pawn has made its double step
C33_Witness ==
    /\ last = [op |-> "make_move", arg1 |-> "f7", arg2 |-> "f5", res |-> "True"]
    /\ board_dict["f7"] = None
    /\ board_dict["f5"] = "f7"

\* C34: an accepted entry_fairy_piece puts a piece of the requested kind
\* and of the colour to move on the entry square, changes no other of the
\* 64 squares, and leaves both captured lists and the outcome unchanged.
C34_EntryFrame ==
    [][(EntryCalled /\ Returned("True")) =>
         /\ last'.arg1 \in FairyCodes /\ last'.arg2 \in SquareKeys
         /\ board_dict'[last'.arg2] # None
         /\ get_name(board_dict'[last'.arg2]) = CodeKind(last'.arg1)
         /\ get_color(board_dict'[last'.arg2]) = ToMove
         /\ \A key \in SquareKeys \ {last'.arg2} : board_dict'[key] = board_dict[key]
         /\ player_1'.captured_pieces = player_1.captured_pieces
         /\ player_2'.captured_pieces = player_2.captured_pieces
         /\ game_state' = game_state]_vars

\* the black hunter has entered on f7, which the pawn had left
C34_Witness ==
    /\ last = [op |-> "entry_fairy_piece", arg1 |-> "h", arg2 |-> "f7", res |-> "True"]
    /\ board_dict["f7"] = "h"
    /\ board_dict["f5"] = "f7"

(***************************************************************************)
(* Whose losses a captured list records.                                   *)
(***************************************************************************)
StandardKinds == {"pawn", "rook", "knight", "bishop", "queen", "king"}

\* pieces of a kind in the standard layout of one colour
StartCount(kind) ==
    IF kind = "pawn" THEN 8
    ELSE IF kind \in {"rook", "knight", "bishop"} THEN 2
    ELSE 1

\* standard pieces of a colour and kind that have left the board
Taken(color, kind) == StartCount(kind) - OnBoard(color, kind)

\* C35 as stated: a player's captured list holds the labels of the
\* opponent's pieces that the player has taken.
C35_CapturedListHoldsTakenPieces ==
    \A color \in {"white", "black"}, kind \in StandardKinds :
        Count(PlayerOf(color).captured_pieces, kind) = Taken(Opponent(color), kind)

\* C35 amended: a player's captured list holds the labels of the player's
\* own pieces that the opponent has taken: one label for every standard
\* piece of the player that has left the board, and at most one hunter and
\* one falcon label, each only while that piece is off the 64 squares.
C35_CapturedListHoldsOwnLosses ==
    \A color \in {"white", "black"} :
        /\ \A kind \in StandardKinds :
               Count(PlayerOf(color).captured_pieces, kind) = Taken(color, kind)
        /\ \A kind \in {"hunter", "falcon"} :
               /\ Count(PlayerOf(color).captured_pieces, kind) <= 1
               /\ Count(PlayerOf(color).captured_pieces, kind) = 1
                      => OnBoard(color, kind) = 0

\* the black bishop has taken the white d-pawn: the label is in white's list
C35_Witness ==
    /\ last = [op |-> "make_move", arg1 |-> "c8", arg2 |-> "d2", res |-> "True"]
    /\ board_dict["d2"] = "c8"
    /\ player_1.captured_pieces = <<"pawn">>
    /\ player_2.captured_pieces = <<>>

\* the white bishop has taken the black hunter on f7
HunterTaken ==
    /\ last = [op |-> "make_move", arg1 |-> "a3", arg2 |-> "f7", res |-> "True"]
    /\ Contains(player_2.captured_pieces, "hunter")
    /\ \A key \in SquareKeys : board_dict[key] # "h"
====
